---- MODULE Spec2Model ----
(***************************************************************************)
(* Model of scripts/esCleaner.py: the Elasticsearch retention runner.      *)
(* main() checks its arguments, builds a client, builds a curator          *)
(* IndexList, exits early when the list is empty, filters the list by the  *)
(* date embedded in the index names, exits early when nothing is left and  *)
(* otherwise runs curator's DeleteIndices action on what is left.          *)
(* Each statement of main() is one action; pc is main()'s position.        *)
(***************************************************************************)
EXTENDS Integers, Sequences, FiniteSets, TLC

\* ------------------------------------------------------------------ bounds
MaxArgs == 2
MaxIndices == 3
MaxDay == 10

\* --------------------------------------------------------- fixed parameters
\* filter_by_age(..., unit='days', unit_count=4)
unit_count == 4
SecondsPerDay == 86400

Prog == "esCleaner.py"
\* the k-th endpoint argument: HOSTNAME:PORT first, bare HOSTNAMEs after it
Endpoint(k) == IF k = 1 THEN "es1:9200" ELSE "es2"

UsageMsg == "USAGE: %s HOSTNAME[:PORT] ..."
NoIndicesMsg == "ElasticSearch has no indices"
NothingToDeleteMsg == "No indices to delete"

\* ------------------------------------------------------------- index names
\* An index name is a prefix and the date embedded in it (<<>> when the name
\* holds no YYYY-MM-DD date).
Dates == {<<2022, 12, 30>>, <<2022, 12, 31>>} \cup {<<2023, 1, d>> : d \in 1..MaxDay}
DatedNames == {[prefix |-> "logs", date |-> dt] : dt \in Dates}
UndatedNames == {[prefix |-> "kibana", date |-> <<>>]}
IndexNames == DatedNames \cup UndatedNames

Clusters == {c \in SUBSET IndexNames : Cardinality(c) <= MaxIndices}
Clocks == {[date |-> dt, tod |-> t] : dt \in Dates, t \in {0, 43200}}

\* sys.argv: the program name followed by the endpoints
Argvs == {<<Prog>> \o [k \in 1..n |-> Endpoint(k)] : n \in 0..MaxArgs}

\* ----------------------------------------------- the '%Y-%m-%d' timestring
IsLeap(y) == (y % 4 = 0 /\ y % 100 # 0) \/ y % 400 = 0

DaysInMonth(y, m) ==
    IF m = 2 THEN (IF IsLeap(y) THEN 29 ELSE 28)
    ELSE IF m \in {4, 6, 9, 11} THEN 30 ELSE 31

RECURSIVE DaysBeforeMonth(_, _)
DaysBeforeMonth(y, m) ==
    IF m = 1 THEN 0 ELSE DaysBeforeMonth(y, m - 1) + DaysInMonth(y, m - 1)

\* days from 1970-01-01 to January 1st of year y
DaysBeforeYear(y) ==
    365 * (y - 1970) + ((y - 1969) \div 4) - ((y - 1901) \div 100) + ((y - 1601) \div 400)

\* epoch seconds of midnight of the date
DateEpoch(dt) ==
    SecondsPerDay * (DaysBeforeYear(dt[1]) + DaysBeforeMonth(dt[1], dt[2]) + (dt[3] - 1))

\* the clock read by the filter, in epoch seconds
ClockEpoch(clk) == DateEpoch(clk.date) + clk.tod

\* point of reference: now minus unit_count units
PointOfReference(clk) == ClockEpoch(clk) - unit_count * SecondsPerDay

\* direction='older': an index passes when its name date lies before the
\* point of reference; a name without a date never passes
AgeTestYounger(name, clk) ==
    /\ name.date # <<>>
    /\ DateEpoch(name.date) > PointOfReference(clk)

AgeTestInclusive(name, clk) ==
    /\ name.date # <<>>
    /\ DateEpoch(name.date) <= PointOfReference(clk)

AgeTest(name, clk) ==
    /\ name.date # <<>>
    /\ DateEpoch(name.date) < PointOfReference(clk)

filter_by_age(indices, clk) == {i \in indices : AgeTest(i, clk)}


\* ------------------------------------------------------------------- state
VARIABLES
    argv,            \* sys.argv
    cluster,         \* the indices the cluster holds
    now,             \* the clock the age filter reads
    pc,              \* position in main()
    client,          \* elasticsearch.Elasticsearch(...) or None
    ilo,             \* curator.IndexList(client) or None
    delete_indices,  \* curator.DeleteIndices(ilo) or None
    stdout,          \* lines printed
    exit_status,     \* process exit status, -1 while running
    raised,          \* exception that left main() uncaught, "" if none
    exc,             \* what the latest library call raised, "" if it returned
    filtered,        \* what filter_by_age left in the list, <<>> before it returns
    calls,           \* library calls made so far, in order
    submitted        \* index sets handed to the cluster for deletion, in order

vars == <<argv, cluster, now, pc, client, ilo, delete_indices, stdout,
          exit_status, raised, exc, filtered, calls, submitted>>

None == [exists |-> FALSE]
Running == -1

Init ==
    /\ argv \in Argvs
    /\ cluster \in Clusters
    /\ now \in Clocks
    /\ pc = "check_args"
    /\ client = None
    /\ ilo = None
    /\ delete_indices = None
    /\ stdout = <<>>
    /\ exit_status = Running
    /\ raised = ""
    /\ exc = ""
    /\ filtered = <<>>
    /\ calls = <<>>
    /\ submitted = <<>>

\* ---------------------------------------------------------- process exits
\* sys.exit(status): the process ends with that status
SysExit(status) ==
    /\ pc' = "done"
    /\ exit_status' = status
    /\ raised' = ""

\* an exception nothing catches reaches the top of the script: the
\* interpreter prints a traceback and ends the process with status 1
UncaughtSilent(e) ==
    /\ pc' = "done"
    /\ exit_status' = 0
    /\ raised' = e

Uncaught(e) ==
    /\ pc' = "done"
    /\ exit_status' = 1
    /\ raised' = e

\* main() returned: the script ends normally
ScriptEndFailure ==
    /\ pc' = "done"
    /\ exit_status' = 1
    /\ raised' = ""

ScriptEnd ==
    /\ pc' = "done"
    /\ exit_status' = 0
    /\ raised' = ""

\* --------------------------------------------------------------- main()
\* if len(sys.argv) == 1
NoEndpointsNever(av) == Len(av) = 0

NoEndpoints(av) == Len(av) = 1

CheckArgs ==
    /\ pc = "check_args"
    /\ IF NoEndpoints(argv)
       THEN /\ stdout' = Append(stdout, [text |-> UsageMsg, arg |-> argv[1]])
            /\ SysExit(1)
       ELSE /\ pc' = "connect"
            /\ UNCHANGED <<stdout, exit_status, raised>>
    /\ UNCHANGED <<argv, cluster, now, client, ilo, delete_indices, exc, filtered,
                   calls, submitted>>

\* client = elasticsearch.Elasticsearch(sys.argv[1:])
Connect ==
    /\ pc = "connect"
    /\ calls' = Append(calls, "Elasticsearch")
    /\ \/ /\ client' = [exists |-> TRUE, hosts |-> SubSeq(argv, 2, Len(argv))]
          /\ exc' = ""
          /\ pc' = "enumerate"
          /\ UNCHANGED <<exit_status, raised>>
       \/ /\ exc' = "Other"
          /\ Uncaught("Other")
          /\ UNCHANGED client
    /\ UNCHANGED <<argv, cluster, now, ilo, delete_indices, stdout, filtered, submitted>>

\* ilo = curator.IndexList(client): a snapshot of the cluster's indices.
\* On a cluster without indices the constructor, depending on the curator
\* release, returns an empty list or raises NoIndices itself.
Enumerate ==
    /\ pc = "enumerate"
    /\ calls' = Append(calls, "IndexList")
    /\ \/ /\ ilo' = [exists |-> TRUE, all_indices |-> cluster, indices |-> cluster]
          /\ exc' = ""
          /\ pc' = "check_enumerated"
          /\ UNCHANGED <<exit_status, raised>>
       \/ /\ cluster = {}
          /\ exc' = "NoIndices"
          /\ Uncaught("NoIndices")
          /\ UNCHANGED ilo
       \/ /\ exc' = "Other"
          /\ Uncaught("Other")
          /\ UNCHANGED ilo
    /\ UNCHANGED <<argv, cluster, now, client, delete_indices, stdout, filtered, submitted>>

\* ilo.empty_list_check(): raises NoIndices when the list is empty
empty_list_check(l) == IF l.indices = {} THEN "NoIndices" ELSE ""

\* except curator.NoIndices
CatchesOther(e) == e = "Other"

Catches(e) == e = "NoIndices"

\* empty_list(ilo, error_msg), then the statement at pc nxt
empty_list(error_msg, nxt) ==
    /\ calls' = Append(calls, "empty_list_check")
    /\ exc' = empty_list_check(ilo)
    /\ IF exc' = ""
       THEN /\ pc' = nxt
            /\ UNCHANGED <<stdout, exit_status, raised>>
       ELSE IF Catches(exc')
       THEN /\ stdout' = Append(stdout, [text |-> error_msg, arg |-> ""])
            /\ SysExit(0)
       ELSE /\ Uncaught(exc')
            /\ UNCHANGED stdout
    /\ UNCHANGED <<argv, cluster, now, client, ilo, delete_indices, filtered, submitted>>

\* empty_list(ilo, 'ElasticSearch has no indices')
CheckEnumeratedSkipsFilter ==
    /\ pc = "check_enumerated"
    /\ empty_list(NoIndicesMsg, "construct_delete")

CheckEnumerated ==
    /\ pc = "check_enumerated"
    /\ empty_list(NoIndicesMsg, "filter")

\* ilo.filter_by_age(source='name', direction='older', timestring='%Y-%m-%d',
\*                   unit='days', unit_count=4): filters ilo in place
Filter ==
    /\ pc = "filter"
    /\ calls' = Append(calls, "filter_by_age")
    /\ \/ /\ ilo' = [ilo EXCEPT !.indices = filter_by_age(ilo.indices, now)]
          /\ filtered' = <<ilo'.indices>>
          /\ exc' = ""
          /\ pc' = "check_filtered"
          /\ UNCHANGED <<exit_status, raised>>
       \/ /\ exc' = "Other"
          /\ Uncaught("Other")
          /\ UNCHANGED <<ilo, filtered>>
    /\ UNCHANGED <<argv, cluster, now, client, delete_indices, stdout, submitted>>

\* empty_list(ilo, 'No indices to delete')
CheckFilteredFirstMsg ==
    /\ pc = "check_filtered"
    /\ empty_list(NoIndicesMsg, "construct_delete")

CheckFiltered ==
    /\ pc = "check_filtered"
    /\ empty_list(NothingToDeleteMsg, "construct_delete")

\* the list the delete action is built on
DeleteTargetAll(l) == l.all_indices

DeleteTarget(l) == l.indices

\* delete_indices = curator.DeleteIndices(ilo)
ConstructDelete ==
    /\ pc = "construct_delete"
    /\ calls' = Append(calls, "DeleteIndices")
    /\ delete_indices' = [exists |-> TRUE, index_list |-> DeleteTarget(ilo)]
    /\ exc' = ""
    /\ pc' = "do_action"
    /\ UNCHANGED <<argv, cluster, now, client, ilo, stdout, exit_status, raised,
                   filtered, submitted>>

\* delete_indices.do_action(): asks the cluster to delete the indices of the
\* list; when it fails, any part of the list may already be gone
DoAction ==
    /\ pc = "do_action"
    /\ calls' = Append(calls, "do_action")
    /\ submitted' = Append(submitted, delete_indices.index_list)
    /\ \/ /\ cluster' = cluster \ delete_indices.index_list
          /\ exc' = ""
          /\ ScriptEnd
       \/ /\ \E gone \in SUBSET delete_indices.index_list : cluster' = cluster \ gone
          /\ exc' = "Other"
          /\ Uncaught("Other")
    /\ UNCHANGED <<argv, now, client, ilo, delete_indices, stdout, filtered>>

Next ==
    \/ CheckArgs
    \/ Connect
    \/ Enumerate
    \/ CheckEnumerated
    \/ Filter
    \/ CheckFiltered
    \/ ConstructDelete
    \/ DoAction

Spec == Init /\ [][Next]_vars

\* every library call returns or raises, so the statement at pc always runs
FairSpec == Spec /\ WF_vars(Next)

\* ------------------------------------------------------ shared vocabulary
Done == pc = "done"

Line(text) == [text |-> text, arg |-> ""]

UsageLine == [text |-> UsageMsg, arg |-> argv[1]]

Last(q) == q[Len(q)]

IsPrefix(p, q) == Len(p) <= Len(q) /\ SubSeq(q, 1, Len(p)) = p

\* the order of the library calls in main()
CallOrder ==
    <<"Elasticsearch", "IndexList", "empty_list_check", "filter_by_age",
      "empty_list_check", "DeleteIndices", "do_action">>

\* Calendar reading of "older than 4 days", independent of epoch arithmetic:
\* the dates of the model are consecutive days, numbered here from
\* 2022-12-31 = 0.
Ordinal(dt) == IF dt[1] = 2022 THEN dt[3] - 31 ELSE dt[3]

OlderThanFourDays(name, clk) ==
    /\ name.date # <<>>
    /\ \/ Ordinal(name.date) + 4 < Ordinal(clk.date)
       \/ Ordinal(name.date) + 4 = Ordinal(clk.date) /\ clk.tod > 0

Expired(indices, clk) == {i \in indices : OlderThanFourDays(i, clk)}

\* the delete action ran to its end without raising
DeleteCompleted ==
    /\ calls = CallOrder
    /\ exc = ""
    /\ Len(submitted) = 1

\* -------------------------------------------------------------------- C1
\* C1: whenever the age filter left a non-empty list, the delete action is
\* invoked exactly once by the end of the run, on exactly the list the filter
\* left (nothing added, nothing dropped), never more than once at any time,
\* and the run ends with status 0 when the delete action did not raise.
C1_DeleteOnceOnFiltered ==
    /\ Len(submitted) <= 1
    /\ (Done /\ filtered # <<>> /\ filtered[1] # {}) =>
          /\ submitted = <<filtered[1]>>
          /\ Len(SelectSeq(calls, LAMBDA c : c = "do_action")) = 1
          /\ (exc = "" => exit_status = 0 /\ raised = "")

C1_Witness ==
    /\ Done
    /\ filtered # <<>>
    /\ Cardinality(filtered[1]) >= 2
    /\ filtered[1] # ilo.all_indices
    /\ submitted = <<filtered[1]>>
    /\ exc = ""
    /\ exit_status = 0

\* -------------------------------------------------------------------- C2
\* C2: with no endpoint argument (argv holds only the program name) no
\* library call is ever made and no client, index list or delete action ever
\* exists, and the run ends having printed exactly the usage line, with
\* status 1.
C2_UsageExit ==
    Len(argv) = 1 =>
        /\ calls = <<>>
        /\ client = None /\ ilo = None /\ delete_indices = None
        /\ filtered = <<>> /\ submitted = <<>>
        /\ Done => (stdout = <<UsageLine>> /\ exit_status = 1 /\ raised = "")

C2_Witness ==
    /\ Done
    /\ Len(argv) = 1
    /\ stdout = <<UsageLine>>
    /\ exit_status = 1

\* -------------------------------------------------------------------- C3
\* C3: when the enumeration returned an empty list, the filter and the delete
\* action are never invoked, and the run ends having printed exactly
\* "ElasticSearch has no indices", with status 0.
C3_EmptyEnumeration ==
    (ilo # None /\ ilo.all_indices = {}) =>
        /\ \A k \in 1..Len(calls) : calls[k] \notin {"filter_by_age", "DeleteIndices", "do_action"}
        /\ filtered = <<>> /\ submitted = <<>>
        /\ Done => (stdout = <<Line(NoIndicesMsg)>> /\ exit_status = 0 /\ raised = "")

C3_Witness ==
    /\ Done
    /\ Len(argv) > 1
    /\ ilo # None
    /\ ilo.all_indices = {}
    /\ stdout = <<Line(NoIndicesMsg)>>
    /\ exit_status = 0

\* -------------------------------------------------------------------- C4
\* C4: when the enumeration was non-empty and the age filter left nothing,
\* the delete action is never invoked, and the run ends having printed
\* exactly "No indices to delete" (not "ElasticSearch has no indices"), with
\* status 0.
C4_EmptyFilter ==
    (filtered # <<>> /\ filtered[1] = {}) =>
        /\ ilo.all_indices # {}
        /\ \A k \in 1..Len(calls) : calls[k] \notin {"DeleteIndices", "do_action"}
        /\ submitted = <<>>
        /\ Done => (stdout = <<Line(NothingToDeleteMsg)>> /\ exit_status = 0 /\ raised = "")

C4_Witness ==
    /\ Done
    /\ filtered = <<{}>>
    /\ \E i \in ilo.all_indices : i.date # <<>>
    /\ stdout = <<Line(NothingToDeleteMsg)>>
    /\ exit_status = 0

\* -------------------------------------------------------------------- C5
\* C5: when a library call raises an error other than NoIndices, the run is
\* over at that call: nothing was printed, the exit status is not 0, the
\* error is the one that ended the run, the failed call is the last call
\* made and it was made once.
C5_ErrorPropagates ==
    exc = "Other" =>
        /\ Done
        /\ raised = "Other"
        /\ exit_status \notin {0, Running}
        /\ stdout = <<>>
        /\ IsPrefix(calls, CallOrder)
        /\ Last(calls) # "empty_list_check"

C5_Witness ==
    /\ Done
    /\ exc = "Other"
    /\ Last(calls) = "do_action"
    /\ submitted # <<>>
    /\ cluster \cap submitted[1] # {}
    /\ exit_status = 1

\* -------------------------------------------------------------------- C6
\* C6: when the IndexList construction itself raises NoIndices, the run ends
\* with status 0 and without an uncaught error.
C6_EnumerationSignalCaught ==
    (Done /\ calls = <<"Elasticsearch", "IndexList">> /\ exc = "NoIndices") =>
        (exit_status = 0 /\ raised = "")

\* -------------------------------------------------------------------- C7
\* C7: the list the filter leaves, and the set handed to the delete action,
\* is the set of enumerated indices whose name date is more than 4 days
\* before now; with endpoints ["es1:9200"], indices logs-2023-01-01,
\* logs-2023-01-05, logs-2023-01-10 and now = 2023-01-10 a completed run
\* handed exactly {logs-2023-01-01, logs-2023-01-05} to the delete action
\* and ended with status 0.
ScenarioIndex(d) == [prefix |-> "logs", date |-> <<2023, 1, d>>]

Scenario ==
    /\ argv = <<Prog, "es1:9200">>
    /\ ilo # None
    /\ ilo.all_indices = {ScenarioIndex(1), ScenarioIndex(5), ScenarioIndex(10)}
    /\ now = [date |-> <<2023, 1, 10>>, tod |-> 0]

C7_DeletionSet ==
    /\ filtered # <<>> => filtered[1] = Expired(ilo.all_indices, now)
    /\ submitted # <<>> => submitted = <<Expired(ilo.all_indices, now)>>
    /\ (Scenario /\ Done /\ raised = "") =>
          /\ submitted = <<{ScenarioIndex(1), ScenarioIndex(5)}>>
          /\ exit_status = 0

C7_Witness ==
    /\ Scenario
    /\ Done
    /\ submitted = <<{ScenarioIndex(1), ScenarioIndex(5)}>>
    /\ cluster = {ScenarioIndex(10)}
    /\ exit_status = 0

\* -------------------------------------------------------------------- C8
\* C8: the library calls made so far are always an initial part of the fixed
\* order connect, enumerate, empty-check, filter, empty-check, delete; a call
\* is made only after the previous one returned; a run that ends short of
\* the full order ended by the usage exit, by one of the two empty-list
\* exits, or by an uncaught error.
C8_LinearOrder ==
    /\ IsPrefix(calls, CallOrder)
    /\ ~Done => exc = ""
    /\ (Done /\ calls # CallOrder) =>
          \/ calls = <<>> /\ stdout = <<UsageLine>> /\ exit_status = 1
          \/ Len(calls) = 3 /\ stdout = <<Line(NoIndicesMsg)>> /\ exit_status = 0
          \/ Len(calls) = 5 /\ stdout = <<Line(NothingToDeleteMsg)>> /\ exit_status = 0
          \/ raised # "" /\ raised = exc

C8_Witness ==
    /\ Done
    /\ calls = CallOrder
    /\ exc = ""

\* -------------------------------------------------------------------- C9
\* C9: every run ends, in exactly one of: the usage error (status 1), a
\* success (status 0: empty enumeration, empty filter, or completed delete),
\* an uncaught error (status not 0); and a run that ends with status 0
\* having printed nothing has invoked the delete action, which completed.
UsageOutcome ==
    exit_status = 1 /\ raised = "" /\ stdout = <<UsageLine>>

SuccessOutcome ==
    /\ exit_status = 0
    /\ raised = ""
    /\ \/ stdout = <<Line(NoIndicesMsg)>> /\ submitted = <<>>
       \/ stdout = <<Line(NothingToDeleteMsg)>> /\ submitted = <<>>
       \/ stdout = <<>> /\ DeleteCompleted

ErrorOutcome ==
    exit_status \notin {0, Running} /\ raised # "" /\ stdout = <<>>

Count(b) == IF b THEN 1 ELSE 0

OneOutcome ==
    /\ Count(UsageOutcome) + Count(SuccessOutcome) + Count(ErrorOutcome) = 1
    /\ (exit_status = 0 /\ stdout = <<>>) => DeleteCompleted

C9_Terminates ==
    /\ <>Done
    /\ [](Done => OneOutcome)

C9_Witness ==
    /\ Done
    /\ exit_status = 0
    /\ stdout = <<>>
    /\ DeleteCompleted
    /\ cluster \cap submitted[1] = {}

\* ------------------------------------------------------------------- C10
\* C10: every index ever submitted for deletion was enumerated in this run
\* and carries a name date more than 4 days before now; and the cluster's
\* index set changes in no step other than the delete action.
OnlyExpiredSubmitted ==
    \A k \in 1..Len(submitted) : \A i \in submitted[k] :
        /\ ilo # None
        /\ i \in ilo.all_indices
        /\ OlderThanFourDays(i, now)

C10_Frame ==
    /\ []OnlyExpiredSubmitted
    /\ [][pc # "do_action" => cluster' = cluster]_vars

C10_Witness ==
    /\ Done
    /\ Len(submitted) = 1
    /\ submitted[1] # {}
    /\ exc = ""
    /\ \E i \in cluster : i.date = <<>>
    /\ \E i \in cluster : i.date # <<>>

====
